---- MODULE Spec2Model ----
(***************************************************************************)
(* pointerguard: EncryptedPtr<T>, an owning pointer whose address is kept  *)
(* transformed by one of three key-parameterised XOR/rotate methods        *)
(* (src/src/lib.rs).                                                       *)
(*                                                                         *)
(* A u64 is modelled as its 64 bits, a function 0..63 -> {0,1} with bit 0  *)
(* the least significant one, so that rotations, shifts and XOR keep the   *)
(* exact width of the Rust code.                                           *)
(***************************************************************************)
EXTENDS Integers, Sequences, FiniteSets, TLC

\* ------------------------------------------------------------------ bounds
\* keys 0..MaxSmallKey are explored next to the named 64-bit keys
MaxSmallKey == 33
\* data words 0..MaxSmallData are explored next to the named 64-bit words
MaxSmallData == 3
\* heap cells the allocator can hand out
NumAddrs == 2
\* EncryptedPtr instances constructed in one run
MaxPtrs == 2

\* --------------------------------------------------------------- u64 words
\* width of u64
W == 64

\* a u64 is the sequence of its bits: w[i + 1] is bit i, bit 0 the least
\* significant one
Bits == 1..W

Pow2(n) == 2 ^ n

\* the sequence of the values of a function on 1..W
Word(f) == SubSeq(f, 1, W)

\* the u64 whose four 16-bit limbs are l[1] (most significant) .. l[4]
FromLimbs(l) ==
    Word([i \in Bits |-> (l[4 - ((i - 1) \div 16)] \div Pow2((i - 1) % 16)) % 2])

\* the u64 of a small natural number (below 2^16)
U64(n) == FromLimbs(<<0, 0, 0, n>>)

Zero == U64(0)

\* data ^ key
Xor(a, b) == Word([i \in Bits |-> (a[i] + b[i]) % 2])

\* a & b
BitAnd(a, b) == Word([i \in Bits |-> a[i] * b[i]])

\* a | b
BitOr(a, b) == Word([i \in Bits |-> IF a[i] + b[i] > 0 THEN 1 ELSE 0])

\* u64::rotate_left(n): bit i moves to bit (i + n) mod 64, so the top
\* n mod 64 bits become the lowest ones
RotateLeft(a, n) == SubSeq(a, W - (n % W) + 1, W) \o SubSeq(a, 1, W - (n % W))

\* u64::rotate_right(n): bit i moves to bit (i - n) mod 64, so the lowest
\* n mod 64 bits become the top ones
RotateRight(a, n) == SubSeq(a, (n % W) + 1, W) \o SubSeq(a, 1, n % W)

\* a << n on u64, n < 64: zeros enter below, the top n bits are lost
Shl(a, n) == SubSeq(Zero, 1, n) \o SubSeq(a, 1, W - n)

\* a >> n on u64, n < 64: logical shift, zeros enter above
Shr(a, n) == SubSeq(a, n + 1, W) \o SubSeq(Zero, 1, n)

\* hexadecimal digit g of a (digit 0 the least significant), as a number
Nibble(a, g) ==
    a[4 * g + 1] + 2 * a[4 * g + 2] + 4 * a[4 * g + 3] + 8 * a[4 * g + 4]

\* the number of hexadecimal digits of a u64
NibbleCount == 16

\* the value of the hexadecimal digits g..15 of a, as a number, modulo m
\* (Horner in base 16 from the most significant digit down, so that no
\* intermediate exceeds 16*m)
RECURSIVE ModFrom(_, _, _)
ModFrom(a, g, m) ==
    IF g >= NibbleCount THEN 0
    ELSE (16 * ModFrom(a, g + 1, m) + Nibble(a, g)) % m

\* 0xF
MaskF == U64(15)

\* (key & 0xF) as u32: after the mask only digit 0 can be nonzero
LowNibble(key) == Nibble(BitAnd(key, MaskF), 0)

\* (key % 31) as u32
Mod31(key) == ModFrom(key, 0, 31)

\* 0xFFFFFFFF
Mask32 == FromLimbs(<<0, 0, 65535, 65535>>)

\* ---------------------------------------------------------------- MethodA
MethodA_encrypt(data, key) ==
    LET d1 == Xor(data, key)
        d2 == RotateLeft(d1, LowNibble(key))
        d3 == Xor(d2, Shl(key, 3))
        d4 == RotateLeft(d3, 7)
    IN  Xor(d4, RotateLeft(key, 11))

\* a decrypt that undoes the steps in the order encrypt applied them,
\* not in the opposite order
MethodA_decrypt_unreversed(data, key) ==
    LET d1 == Xor(data, key)
        d2 == RotateRight(d1, LowNibble(key))
        d3 == Xor(d2, Shl(key, 3))
        d4 == RotateRight(d3, 7)
    IN  Xor(d4, RotateLeft(key, 11))

MethodA_decrypt(data, key) ==
    LET d1 == Xor(data, RotateLeft(key, 11))
        d2 == RotateRight(d1, 7)
        d3 == Xor(d2, Shl(key, 3))
        d4 == RotateRight(d3, LowNibble(key))
    IN  Xor(d4, key)

\* ---------------------------------------------------------------- MethodB
MethodB_encrypt(data, key) ==
    LET d1 == Xor(data, key)
        d2 == RotateLeft(d1, 13)
        d3 == Xor(d2, RotateLeft(key, 5))
        d4 == RotateLeft(d3, 9)
    IN  Xor(d4, RotateLeft(key, 17))

MethodB_decrypt(data, key) ==
    LET d1 == Xor(data, RotateLeft(key, 17))
        d2 == RotateRight(d1, 9)
        d3 == Xor(d2, RotateLeft(key, 5))
        d4 == RotateRight(d3, 13)
    IN  Xor(d4, key)

\* ---------------------------------------------------------------- MethodC
\* an encrypt that leaves out the last step, data ^= key ^ (key >> 11)
MethodC_encrypt_unmixed(data, key) ==
    LET d1 == Xor(data, key)
        upper == Shr(key, 32)
        lower == BitAnd(key, Mask32)
        d2 == Xor(d1, BitOr(Shl(upper, 32), lower))
    IN  RotateLeft(d2, Mod31(key))

MethodC_encrypt(data, key) ==
    LET d1 == Xor(data, key)
        upper == Shr(key, 32)
        lower == BitAnd(key, Mask32)
        d2 == Xor(d1, BitOr(Shl(upper, 32), lower))
        d3 == RotateLeft(d2, Mod31(key))
    IN  Xor(d3, Xor(key, Shr(key, 11)))

MethodC_decrypt(data, key) ==
    LET d1 == Xor(data, Xor(key, Shr(key, 11)))
        d2 == RotateRight(d1, Mod31(key))
        upper == Shr(key, 32)
        lower == BitAnd(key, Mask32)
        d3 == Xor(d2, BitOr(Shl(upper, 32), lower))
    IN  Xor(d3, key)

\* the closed set of methods new chooses from
Methods == {"A", "B", "C"}

\* dyn Encrypt dispatch
encrypt(method, data, key) ==
    CASE method = "A" -> MethodA_encrypt(data, key)
      [] method = "B" -> MethodB_encrypt(data, key)
      [] method = "C" -> MethodC_encrypt(data, key)

decrypt(method, data, key) ==
    CASE method = "A" -> MethodA_decrypt(data, key)
      [] method = "B" -> MethodB_decrypt(data, key)
      [] method = "C" -> MethodC_decrypt(data, key)

\* ------------------------------------------------------------ named words
\* key of tests::decrypt_value_a/b/c
TestKey == FromLimbs(<<4660, 22136, 37035, 52719>>)      \* 0x1234567890ABCDEF
\* data of tests::decrypt_value_a/b/c
TestData == FromLimbs(<<65244, 47625, 34661, 17185>>)    \* 0xFEDCBA0987654321
\* u64::MAX
AllOnes == FromLimbs(<<65535, 65535, 65535, 65535>>)
\* a wall-clock key: 1793965000000000000 ns since the epoch,
\* 0x18E571A9A47BD000
ClockKey == FromLimbs(<<6373, 29097, 42107, 53248>>)
\* 0x8000000000000000
TopBit == FromLimbs(<<32768, 0, 0, 0>>)
\* 0x2492492492492492
Word2492 == FromLimbs(<<9362, 18724, 37449, 9362>>)
\* 0xA14FE13207B41A34
WordA14F == FromLimbs(<<41295, 57650, 1972, 6708>>)
\* 0x6F5031206C7AB9FC
Word6F50 == FromLimbs(<<28496, 12576, 27770, 47612>>)

\* the keys explored by the transform tests
KeyWords == {U64(n) : n \in 0..MaxSmallKey} \cup {TestKey, ClockKey, AllOnes, TopBit}

\* the data words explored by the transform tests
DataWords ==
    {U64(n) : n \in 0..MaxSmallData}
        \cup {TestData, AllOnes, TopBit, Word2492, WordA14F, Word6F50}

\* a with its lowest bit flipped
FlipLow(a) == Xor(a, U64(1))

\* --------------------------------------------------------------- the heap
HeapAddrs == 1..NumAddrs

\* the address of heap cell n: 0x000055810A2BC2A0 + 32 * n
AddrWord(n) == FromLimbs(<<0, 21889, 2603, 49824 + 32 * n>>)

\* the null pointer
Null == Zero

\* Box::into_raw of a Box<T> of a zero-sized T: Box allocates nothing and
\* the pointer is the dangling, non-null, well-aligned address align_of::<T>()
Dangling == U64(1)

\* the addresses of the heap cells
AddrWords == [n \in HeapAddrs |-> AddrWord(n)]

\* the heap cell at address w, 0 when w is the address of none
CellOf(w) ==
    IF \E n \in HeapAddrs : AddrWords[n] = w
    THEN CHOOSE n \in HeapAddrs : AddrWords[n] = w
    ELSE 0

\* pointee values (Player { health: 100 }, and another one to write)
Values == {"health=100", "health=50"}

\* the content of memory that holds no T
Poison == "poison"

\* the value of a zero-sized T
Unit == "unit"

FreeCell == [allocated |-> FALSE, live |-> FALSE, value |-> Poison]

\* the raw pointers a caller can hand to new
RawPtrs == {Null} \cup {AddrWord(n) : n \in HeapAddrs}

\* the readings of the wall clock (nanoseconds since the epoch, truncated to
\* u64) that a run meets, one after the other
ClockReadings == <<TestKey, ClockKey>>

\* the methods in the order of the vector new builds
MethodList == <<"A", "B", "C">>

NoLast == [op |-> "none", inst |-> 0, val |-> Poison, text |-> ""]

TIdle == [step |-> "idle", method |-> "A", data |-> Zero, key |-> Zero,
          encrypted |-> Zero, decrypted |-> Zero]

VARIABLES
    now,        \* the wall clock: the index of its reading in ClockReadings
    rng,        \* the random generator: the index random_range returns next
    t,          \* the transform test in progress: method, data, key, results
    ptrs,       \* the EncryptedPtr instances constructed so far
    heap,       \* heap cell -> allocated?, holds a live T?, the T's value
    allocs,     \* calls of the allocator
    deallocs,   \* calls of the deallocator
    ub,         \* an operation with undefined behaviour was executed: what
                \* the program does from there on is not modelled
    last        \* the last operation and what it returned

vars == <<now, rng, t, ptrs, heap, allocs, deallocs, ub, last>>

pvars == <<now, rng, ptrs, heap, allocs, deallocs, ub, last>>

\* EncryptedPtr::generate_key: the clock's reading
generate_key == ClockReadings[now]

\* the clock after a reading was taken: time has passed
NextReading == (now % Len(ClockReadings)) + 1

\* rand::random_range(0..methods.len()), and methods.remove of it
random_method == MethodList[rng + 1]

\* the generator after a draw
NextDraw == (rng + 1) % Len(MethodList)

\* the allocator: first fit, the lowest free cell (0 when memory is exhausted)
alloc ==
    IF \E n \in HeapAddrs : ~heap[n].allocated
    THEN CHOOSE n \in HeapAddrs :
            ~heap[n].allocated /\ \A m \in 1..(n - 1) : heap[m].allocated
    ELSE 0

\* ------------------------------------------------- transform round trips
\* let encrypted = m.encrypt(data, key);
TestEncrypt ==
    /\ t.step = "input"
    /\ t' = [t EXCEPT !.step = "encrypted",
                      !.encrypted = encrypt(t.method, t.data, t.key)]
    /\ UNCHANGED pvars

\* let decrypted = m.decrypt(encrypted, key);
TestDecrypt ==
    /\ t.step = "encrypted"
    /\ t' = [t EXCEPT !.step = "decrypted",
                      !.decrypted = decrypt(t.method, t.encrypted, t.key)]
    /\ UNCHANGED pvars

PInit ==
    /\ now \in DOMAIN ClockReadings
    /\ rng \in 0..(Len(MethodList) - 1)
    /\ ptrs = <<>>
    /\ heap = [n \in HeapAddrs |-> FreeCell]
    /\ allocs = 0
    /\ deallocs = 0
    /\ ub = FALSE
    /\ last = NoLast

TInit ==
    /\ \E m \in Methods, d \in DataWords, k \in KeyWords :
          t = [step |-> "input", method |-> m, data |-> d, key |-> k,
               encrypted |-> Zero, decrypted |-> Zero]
    /\ PInit

TNext == TestEncrypt \/ TestDecrypt

SpecT == TInit /\ [][TNext]_vars

\* ------------------------------------------------------------ EncryptedPtr
\* EncryptedPtr::new: the object built for ptr, with the key generate_key
\* returns and the method drawn.
\* zst (T is zero-sized), orig (the pointer given), fromBox, expect (the
\* value the Box held, then the last one written through this object),
\* drops and log (the calls Drop::drop made) are not fields of the object:
\* they record its history for the properties below.
new(ptr, zst, fromBox, v) ==
    [state |-> "Live",
     encrypted_ptr |-> encrypt(random_method, ptr, generate_key),
     key |-> generate_key,
     method |-> random_method,
     zst |-> zst,
     orig |-> ptr,
     fromBox |-> fromBox,
     expect |-> v,
     drops |-> 0,
     log |-> <<>>]

\* EncryptedPtr::decrypt_ptr
decrypt_ptr(p) == decrypt(p.method, p.encrypted_ptr, p.key)

\* a handle that stays usable after drop ran on it
Live_or_dropped(i) == i \in DOMAIN ptrs

\* the instances that were constructed and not yet dropped; the borrow
\* checker admits no use of a value after it was dropped or moved
Live(i) == i \in DOMAIN ptrs /\ ptrs[i].state = "Live"

\* &*ptr is defined: ptr is non-null and, for a sized T, is a heap cell
\* that is allocated and holds a T that was not dropped
Valid(ptr, zst) ==
    IF zst THEN ptr # Null
    ELSE \E c \in HeapAddrs :
            AddrWords[c] = ptr /\ heap[c].allocated /\ heap[c].live

\* what reading *ptr can give: the T's value, or, for a pointer that is not
\* valid (undefined behaviour), any content
ReadOutcomes(ptr, zst) ==
    IF Valid(ptr, zst)
    THEN {IF zst THEN Unit ELSE heap[CellOf(ptr)].value}
    ELSE Values \cup {Poison}

\* "{:#x}": 0x and the hexadecimal digits, lower case, without leading zeros
HexDigit == <<"0", "1", "2", "3", "4", "5", "6", "7",
              "8", "9", "a", "b", "c", "d", "e", "f">>

RECURSIVE HexFrom(_, _)
HexFrom(a, g) ==
    IF g < 0 THEN "" ELSE HexDigit[Nibble(a, g) + 1] \o HexFrom(a, g - 1)

TopDigit(a) ==
    IF a = Zero THEN 0
    ELSE CHOOSE g \in 0..(NibbleCount - 1) :
            /\ Nibble(a, g) # 0
            /\ \A h \in (g + 1)..(NibbleCount - 1) : Nibble(a, h) = 0

Hex(a) == "0x" \o HexFrom(a, TopDigit(a))

\* From<Box<T>>::from(Box::new(v)): the Box is allocated (no allocation for a
\* zero-sized T), into_raw gives its address, new wraps it
From(v, zst) ==
    /\ ~ub
    /\ Len(ptrs) < MaxPtrs
    /\ IF zst
       THEN /\ ptrs' = Append(ptrs, new(Dangling, TRUE, TRUE, Unit))
            /\ UNCHANGED <<heap, allocs>>
       ELSE /\ alloc # 0
            /\ heap' = [heap EXCEPT
                          ![alloc] = [allocated |-> TRUE, live |-> TRUE, value |-> v]]
            /\ allocs' = allocs + 1
            /\ ptrs' = Append(ptrs, new(AddrWords[alloc], FALSE, TRUE, v))
    /\ now' = NextReading
    /\ rng' = NextDraw
    /\ last' = NoLast
    /\ UNCHANGED <<t, deallocs, ub>>

\* EncryptedPtr::new(ptr) called directly: a safe function that takes any
\* raw pointer to a sized T
New(ptr) ==
    /\ ~ub
    /\ Len(ptrs) < MaxPtrs
    /\ ptrs' = Append(ptrs, new(ptr, FALSE, FALSE, Poison))
    /\ now' = NextReading
    /\ rng' = NextDraw
    /\ last' = NoLast
    /\ UNCHANGED <<t, heap, allocs, deallocs, ub>>

\* Deref::deref, and the read of the reference it returns
Deref(i) ==
    /\ ~ub
    /\ Live(i)
    /\ \E ptr \in {decrypt_ptr(ptrs[i])} :
          /\ ub' = ~Valid(ptr, ptrs[i].zst)
          /\ \E r \in ReadOutcomes(ptr, ptrs[i].zst) :
                last' = [op |-> "deref", inst |-> i, val |-> r, text |-> ""]
    /\ UNCHANGED <<now, rng, t, ptrs, heap, allocs, deallocs>>

\* a deref_mut that keeps the decoded address in the object for later calls
DerefMut_caching(i, v) ==
    /\ ~ub
    /\ Live(i)
    /\ \E ptr \in {decrypt_ptr(ptrs[i])} :
          LET zst == ptrs[i].zst
              c == CellOf(ptr)
          IN  /\ ub' = ~Valid(ptr, zst)
              /\ heap' = IF ~zst /\ c # 0 THEN [heap EXCEPT ![c].value = v] ELSE heap
              /\ ptrs' = [ptrs EXCEPT ![i].expect = IF zst THEN Unit ELSE v,
                                      ![i].encrypted_ptr = ptr]
              /\ last' = [op |-> "deref_mut", inst |-> i,
                          val |-> IF zst THEN Unit ELSE v, text |-> ""]
    /\ UNCHANGED <<now, rng, t, allocs, deallocs>>

\* DerefMut::deref_mut, and the write of v through the reference it returns;
\* through a pointer that is not valid the store is undefined behaviour, and
\* where ptr is the address of a heap cell it may land there
DerefMut(i, v) ==
    /\ ~ub
    /\ Live(i)
    /\ \E ptr \in {decrypt_ptr(ptrs[i])} :
          LET zst == ptrs[i].zst
              c == CellOf(ptr)
          IN  /\ ub' = ~Valid(ptr, zst)
              /\ heap' = IF ~zst /\ c # 0 THEN [heap EXCEPT ![c].value = v] ELSE heap
              /\ ptrs' = [ptrs EXCEPT ![i].expect = IF zst THEN Unit ELSE v]
              /\ last' = [op |-> "deref_mut", inst |-> i,
                          val |-> IF zst THEN Unit ELSE v, text |-> ""]
    /\ UNCHANGED <<now, rng, t, allocs, deallocs>>

\* fmt::Debug::fmt: the encrypted value in hexadecimal and the pointee
Fmt(i) ==
    /\ ~ub
    /\ Live(i)
    /\ \E ptr \in {decrypt_ptr(ptrs[i])} :
          /\ ub' = ~Valid(ptr, ptrs[i].zst)
          /\ \E r \in ReadOutcomes(ptr, ptrs[i].zst) :
                last' = [op |-> "fmt", inst |-> i, val |-> r,
                         text |-> Hex(ptrs[i].encrypted_ptr)]
    /\ UNCHANGED <<now, rng, t, ptrs, heap, allocs, deallocs>>

\* Drop::drop: decrypt_ptr, drop_in_place(ptr), dealloc(ptr, Layout::new::<T>()).
\* panics: the pointee's destructor unwinds, and drop is left before dealloc.
\* drop_in_place of a pointer that is not valid, and dealloc of an address
\* that is no live allocation, are undefined behaviour.
Drop(i, panics) ==
    /\ ~ub
    /\ Live(i)
    /\ \E ptr \in {decrypt_ptr(ptrs[i])} :
          LET zst == ptrs[i].zst
              c == CellOf(ptr)
              valid == Valid(ptr, zst)
              unwinds == valid /\ panics
              owned == c # 0 /\ heap[c].allocated
              dropped == IF valid /\ ~zst
                         THEN [heap EXCEPT ![c].live = FALSE, ![c].value = Poison]
                         ELSE heap
              placed == IF valid THEN "drop_in_place" ELSE "drop_in_place_invalid"
          IN  IF unwinds
              THEN /\ heap' = dropped
                   /\ deallocs' = deallocs
                   /\ ub' = FALSE
                   /\ ptrs' = [ptrs EXCEPT
                                 ![i].state = "Destroyed",
                                 ![i].drops = @ + 1,
                                 ![i].log = <<"decrypt_ptr", placed, "unwind">>]
              ELSE /\ heap' = IF owned THEN [dropped EXCEPT ![c] = FreeCell]
                                       ELSE dropped
                   /\ deallocs' = deallocs + 1
                   /\ ub' = (~valid \/ ~owned)
                   /\ ptrs' = [ptrs EXCEPT
                                 ![i].state = "Destroyed",
                                 ![i].drops = @ + 1,
                                 ![i].log = <<"decrypt_ptr", placed,
                                              IF owned THEN "dealloc"
                                              ELSE "dealloc_invalid">>]
    /\ last' = NoLast
    /\ UNCHANGED <<now, rng, t, allocs>>

Init ==
    /\ t = TIdle
    /\ PInit

Next ==
    \/ \E v \in Values, zst \in BOOLEAN : From(v, zst)
    \/ \E ptr \in RawPtrs : New(ptr)
    \/ \E i \in 1..MaxPtrs : Deref(i)
    \/ \E i \in 1..MaxPtrs, v \in Values : DerefMut(i, v)
    \/ \E i \in 1..MaxPtrs : Fmt(i)
    \/ \E i \in 1..MaxPtrs, panics \in BOOLEAN : Drop(i, panics)

Spec == Init /\ [][Next]_vars

\* ------------------------------------------------------------- properties
Destroyed(i) == i \in DOMAIN ptrs /\ ptrs[i].state = "Destroyed"

\* C1: round-trip law. For each method, every data word and every key
\* (key 0 and keys with a rotation amount of 0 included), decrypting what
\* encrypt gave, under the same key, gives the data back; and encrypt under
\* a fixed key sends no other data word to the same result (a bijection).
C1_RoundTrip ==
    /\ t.step = "decrypted" => t.decrypted = t.data
    /\ t.step = "encrypted" =>
          \A d \in DataWords \ {t.data} :
              encrypt(t.method, d, t.key) # t.encrypted

\* the round trip of a nonzero key whose rotation amount key & 0xF is 0
C1_Witness ==
    /\ t.step = "decrypted"
    /\ t.method = "A"
    /\ t.key # Zero
    /\ LowNibble(t.key) = 0
    /\ t.encrypted # t.data
    /\ t.decrypted = t.data

\* C2: transparency law. Every EncryptedPtr built from a Box holding v
\* decodes, while it is live, to the address given to new, and a read
\* through it returns v, or the value last written through it.
C2_Transparency ==
    \A i \in DOMAIN ptrs :
        (Live(i) /\ ptrs[i].fromBox) =>
            /\ decrypt_ptr(ptrs[i]) = ptrs[i].orig
            /\ (last.inst = i /\ last.op \in {"deref", "fmt"}) =>
                  last.val = ptrs[i].expect

\* C3: single release. The deallocator is never called more often than the
\* allocator, and once every constructed pointer was destroyed it was
\* called as often.
C3_SingleRelease ==
    /\ deallocs <= allocs
    /\ (ptrs # <<>> /\ \A i \in DOMAIN ptrs : Destroyed(i)) => deallocs = allocs

\* C4: exclusive ownership. No two live EncryptedPtr decode to the address
\* of the same allocation.
C4_ExclusiveOwnership ==
    \A i, j \in DOMAIN ptrs :
        (i # j /\ Live(i) /\ Live(j)) =>
            ~ /\ decrypt_ptr(ptrs[i]) = decrypt_ptr(ptrs[j])
              /\ CellOf(decrypt_ptr(ptrs[i])) # 0
              /\ heap[CellOf(decrypt_ptr(ptrs[i]))].allocated

\* C5: live validity. Every live EncryptedPtr, whatever pointer new was
\* given, decodes to a non-null address that holds an allocated T that was
\* not dropped.
C5_LiveValidity ==
    \A i \in DOMAIN ptrs :
        Live(i) => Valid(decrypt_ptr(ptrs[i]), ptrs[i].zst)

\* C6: lifecycle. An EncryptedPtr is Live or Destroyed; the one change of
\* state is Live -> Destroyed, made by Drop::drop, which runs at most once
\* on it; a Destroyed one stays as it is, and no deref, deref_mut or fmt of
\* it comes after.
C6_Lifecycle ==
    [][\A i \in DOMAIN ptrs :
          /\ ptrs'[i].state \in {"Live", "Destroyed"}
          /\ ptrs'[i].drops <= 1
          /\ ptrs'[i].state # ptrs[i].state =>
                /\ ptrs[i].state = "Live"
                /\ ptrs'[i].state = "Destroyed"
                /\ ptrs'[i].drops = ptrs[i].drops + 1
                /\ ptrs'[i].log # <<>>
          /\ ptrs[i].state = "Destroyed" =>
                /\ ptrs'[i] = ptrs[i]
                /\ last'.inst # i]_vars

\* a pointer was dropped, and another one was read after that
C6_Witness ==
    \E i, j \in DOMAIN ptrs :
        /\ Destroyed(i)
        /\ ptrs[i].drops = 1
        /\ Live(j)
        /\ last.inst = j
        /\ last.op = "deref"

\* C7, as claimed: under a nonzero key, no method leaves an address as it is.
C7_NonTrivial ==
    (t.step # "input" /\ t.key # Zero) => t.encrypted # t.data

\* C7, amended: under a nonzero key no method's encrypt is the identity: of
\* an address and the address with its lowest bit flipped, at least one is
\* changed; under key 0 MethodC changes no address.
C7_NotIdentity ==
    /\ (t.step # "input" /\ t.key # Zero) =>
          \/ t.encrypted # t.data
          \/ encrypt(t.method, FlipLow(t.data), t.key) # FlipLow(t.data)
    /\ (t.step # "input" /\ t.key = Zero /\ t.method = "C") =>
          t.encrypted = t.data

\* a nonzero key and an address that encrypt leaves as it is, next to one
\* it changes
C7_Witness ==
    /\ t.step = "encrypted"
    /\ t.key # Zero
    /\ t.encrypted = t.data
    /\ encrypt(t.method, FlipLow(t.data), t.key) # FlipLow(t.data)

\* C8: immutable obfuscation state. No operation changes the
\* encrypted_ptr, key or method of an EncryptedPtr, and what it stores stays
\* the encryption of the pointer new was given, never a decoded address.
C8_FieldsFixed ==
    [][\A i \in DOMAIN ptrs :
          /\ ptrs'[i].encrypted_ptr = ptrs[i].encrypted_ptr
          /\ ptrs'[i].key = ptrs[i].key
          /\ ptrs'[i].method = ptrs[i].method]_vars

\* a write went through a live pointer, whose stored word is not the address
C8_Witness ==
    /\ last.op = "deref_mut"
    /\ Live(last.inst)
    /\ CellOf(ptrs[last.inst].orig) # 0
    /\ heap[CellOf(ptrs[last.inst].orig)].value = last.val
    /\ ptrs[last.inst].encrypted_ptr # ptrs[last.inst].orig

\* C9: destruction order and guaranteed release. Drop::drop decodes, then
\* runs the pointee's destructor, then calls the deallocator, and the
\* deallocator is called on every path out of drop.
C9_DropReleases ==
    \A i \in DOMAIN ptrs :
        ptrs[i].log # <<>> =>
            /\ ptrs[i].log[1] = "decrypt_ptr"
            /\ ptrs[i].log[2] \in {"drop_in_place", "drop_in_place_invalid"}
            /\ ptrs[i].log[3] \in {"dealloc", "dealloc_invalid"}

\* C10: deallocation matches allocation. Drop::drop of an EncryptedPtr built
\* from a Box calls the deallocator only on the address of a live
\* allocation, and not at all when T is zero-sized.
C10_DeallocMatches ==
    \A i \in DOMAIN ptrs :
        (ptrs[i].fromBox /\ ptrs[i].log # <<>>) =>
            /\ ptrs[i].log[3] # "dealloc_invalid"
            /\ ptrs[i].zst => ptrs[i].log[3] \notin {"dealloc", "dealloc_invalid"}

====
